---------------------------- MODULE Spec2Model ----------------------------
(***************************************************************************)
(* A model of engines/github_code_engine.py (GitHubCodeEngine): the        *)
(* repository listing, the recursive tree walk, the extension classifier,  *)
(* the per-language analysers, the README analyser, score_repo and the     *)
(* aggregation done by analyse().                                          *)
(*                                                                         *)
(* Representation.  A path is a sequence of one-character strings, so that *)
(* str.lower(), str.endswith() and the substring test are computed         *)
(* character by character.  A text (file or README) is the sequence of its *)
(* lines (what str.splitlines() returns); a line is one of a fixed         *)
(* vocabulary of source lines, and each regular expression of the          *)
(* analysers is given by the set of vocabulary lines it matches once.      *)
(* A Python dict is a function whose DOMAIN is its key set, except the     *)
(* language histogram, whose insertion order matters and which is kept as  *)
(* a sequence of [lang, n] items.                                          *)
(***************************************************************************)
EXTENDS Integers, Sequences, FiniteSets, TLC

VARIABLES
    listing,         \* remote state: names the repository listing returns
    down,            \* remote state: URLs that answer with a non-200 status
    pc,              \* position of analyse()
    repos,           \* analyse: repos
    i,               \* analyse: index of the repository of the for loop
    files,           \* analyse: files of the current repository
    lang_counts,     \* analyse: lang_counts
    dom_lang,        \* analyse: dom_lang
    test_count,      \* analyse: test_count
    readme_score,    \* analyse: readme_score
    repo_summaries,  \* analyse: repo_summaries
    top,             \* analyse: top
    result,          \* the value analyse() returned
    error,           \* the exception analyse() raised ("" while none)
    requests,        \* log of the URLs requested through _get, in order
    call,            \* arguments of a single call of a pure method
    ret              \* the value that call returned

vars == <<listing, down, pc, repos, i, files, lang_counts, dom_lang,
          test_count, readme_score, repo_summaries, top, result, error,
          requests, call, ret>>

analyseVars == <<listing, down, pc, repos, i, files, lang_counts, dom_lang,
                 test_count, readme_score, repo_summaries, top, result,
                 error, requests>>

-----------------------------------------------------------------------------
(* Bounds of the model *)

\* most repositories in one remote listing
MaxListing == 4

-----------------------------------------------------------------------------
(* Sequences, strings and dicts *)

Min(a, b) == IF a < b THEN a ELSE b

Max(a, b) == IF a > b THEN a ELSE b

Range(s) == {s[k] : k \in DOMAIN s}

\* sum(s[lo..hi]); the range is halved to keep the evaluation shallow
RECURSIVE SumRange(_, _, _)
SumRange(s, lo, hi) ==
    IF lo > hi THEN 0
    ELSE IF lo = hi THEN s[lo]
    ELSE LET mid == (lo + hi) \div 2
         IN  SumRange(s, lo, mid) + SumRange(s, mid + 1, hi)

SumSeq(s) == SumRange(s, 1, Len(s))

\* s[:n]
Take(s, n) == SubSeq(s, 1, Min(n, Len(s)))

\* len([x for x in s if x in set])
Count(s, set) == Cardinality({k \in DOMAIN s : s[k] \in set})

UPPER == <<"A","B","C","D","E","F","G","H","I","J","K","L","M",
           "N","O","P","Q","R","S","T","U","V","W","X","Y","Z">>

LOWER == <<"a","b","c","d","e","f","g","h","i","j","k","l","m",
           "n","o","p","q","r","s","t","u","v","w","x","y","z">>

LowerChar(c) ==
    IF \E k \in DOMAIN UPPER : UPPER[k] = c
    THEN LOWER[CHOOSE k \in DOMAIN UPPER : UPPER[k] = c]
    ELSE c

\* str.lower()
Lower(p) == [k \in DOMAIN p |-> LowerChar(p[k])]

\* str.endswith(suffix)
EndsWith(p, suffix) ==
    /\ Len(p) >= Len(suffix)
    /\ SubSeq(p, Len(p) - Len(suffix) + 1, Len(p)) = suffix

\* sub in p
Contains(p, sub) ==
    \E k \in 1..(Len(p) - Len(sub) + 1) : SubSeq(p, k, k + Len(sub) - 1) = sub

\* TRUE; reading x has an accumulator evaluated before it is passed on,
\* which keeps the evaluation of a long loop shallow
Forced(x) == x = x

\* dict.get(key, 0)
GetOr0(d, key) == IF key \in DOMAIN d THEN d[key] ELSE 0

-----------------------------------------------------------------------------
(* EXT_LANG and CODE_EXTS *)

EXT_LANG == <<
    [ext |-> <<".","p","y">>,          lang |-> "Python"],
    [ext |-> <<".","j","s">>,          lang |-> "JavaScript"],
    [ext |-> <<".","t","s">>,          lang |-> "TypeScript"],
    [ext |-> <<".","j","s","x">>,      lang |-> "JavaScript"],
    [ext |-> <<".","t","s","x">>,      lang |-> "TypeScript"],
    [ext |-> <<".","d","a","r","t">>,  lang |-> "Dart"],
    [ext |-> <<".","h","t","m","l">>,  lang |-> "HTML"],
    [ext |-> <<".","c","s","s">>,      lang |-> "CSS"],
    [ext |-> <<".","s","c","s","s">>,  lang |-> "CSS"],
    [ext |-> <<".","j","s","o","n">>,  lang |-> "JSON"],
    [ext |-> <<".","y","m","l">>,      lang |-> "YAML"],
    [ext |-> <<".","y","a","m","l">>,  lang |-> "YAML"],
    [ext |-> <<".","m","d">>,          lang |-> "Markdown"],
    [ext |-> <<".","s","h">>,          lang |-> "Shell"],
    [ext |-> <<".","s","q","l">>,      lang |-> "SQL"] >>

CODE_EXTS ==
    {EXT_LANG[k].ext : k \in DOMAIN EXT_LANG} \
        {<<".","m","d">>, <<".","j","s","o","n">>,
         <<".","y","m","l">>, <<".","y","a","m","l">>}

-----------------------------------------------------------------------------
(* detect_languages and dominant_language *)

\* the inner for loop of detect_languages: the language of the first table
\* entry, from entry k on, whose extension ends the lowered path ("" if none)
RECURSIVE MatchExt(_, _)
MatchExt(lower, k) ==
    IF k > Len(EXT_LANG) THEN ""
    ELSE IF EndsWith(lower, EXT_LANG[k].ext) THEN EXT_LANG[k].lang
    ELSE MatchExt(lower, k + 1)

\* counts[lang] += 1 on a Counter kept in insertion order
CounterAdd(counts, lang) ==
    IF \E k \in DOMAIN counts : counts[k].lang = lang
    THEN [k \in DOMAIN counts |->
            IF counts[k].lang = lang
            THEN [lang |-> lang, n |-> counts[k].n + 1]
            ELSE counts[k]]
    ELSE Append(counts, [lang |-> lang, n |-> 1])

\* a turn that compares the path as it is written
DetectOneCased(counts, p) ==
    LET lang == MatchExt(p, 1)
    IN  IF lang = "" THEN counts ELSE CounterAdd(counts, lang)

\* one turn of the outer for loop of detect_languages
DetectOne(counts, p) ==
    LET lang == MatchExt(Lower(p), 1)
    IN  IF lang = "" THEN counts ELSE CounterAdd(counts, lang)

\* the outer for loop over fs[lo..hi], in order, starting from counts; the
\* range is halved to keep the evaluation shallow
RECURSIVE DetectRange(_, _, _, _)
DetectRange(fs, lo, hi, counts) ==
    IF lo > hi \/ ~Forced(counts) THEN counts
    ELSE IF lo = hi THEN DetectOne(counts, fs[lo])
    ELSE LET mid  == (lo + hi) \div 2
             left == DetectRange(fs, lo, mid, counts)
         IN  DetectRange(fs, mid + 1, hi, left)

detect_languages(fs) == DetectRange(fs, 1, Len(fs), <<>>)

\* the last item no earlier item exceeds
RECURSIVE MaxItemLast(_, _, _)
MaxItemLast(counts, k, best) ==
    IF k > Len(counts) THEN best
    ELSE MaxItemLast(counts, k + 1,
                     IF counts[k].n >= counts[best].n THEN k ELSE best)

\* max(items, key=count): the first item no later item exceeds
RECURSIVE MaxItem(_, _, _)
MaxItem(counts, k, best) ==
    IF k > Len(counts) THEN best
    ELSE MaxItem(counts, k + 1,
                 IF counts[k].n > counts[best].n THEN k ELSE best)

dominant_language(counts) ==
    IF counts = <<>> THEN "Unknown"
    ELSE counts[MaxItem(counts, 2, 1)].lang

-----------------------------------------------------------------------------
(* The analysers: each pattern is the set of vocabulary lines it matches *)

RE_py_def       == {"def f(a):"}
RE_py_class     == {"class A:"}
RE_py_import    == {"import flask", "import sqlite3", "import React from 'r'",
                    "import 'flutter';"}
RE_py_try       == {"try:"}
RE_py_except    == {"except E:"}
RE_py_comment   == {"# note"}
RE_py_docstring == {"'''doc'''"}
RE_py_api       == {"r = requests.get(u)"}
RE_py_db        == {"import sqlite3"}
RE_py_framework == {"import flask"}
RE_async        == {"await g()"}
RE_js_function  == {"const f = (a) => a"}
RE_class_name   == {"class A:"}
RE_js_import    == {"import flask", "import sqlite3", "import React from 'r'",
                    "import 'flutter';"}
RE_try_brace    == {"try {"}
RE_js_comment   == {"// c"}
RE_js_framework == {"import React from 'r'"}
RE_js_api       == {"fetch(u)"}
RE_dart_function  == {"void m() {"}
RE_dart_import    == {"import 'flutter';"}
RE_dart_framework == {"import 'flutter';"}
RE_html_tag     == {"<p>hi</p>"}
RE_css_selector == {"try {", ".a { top: 0 }"}

analyse_python(code) ==
    [lines         |-> Len(code),
     functions     |-> Count(code, RE_py_def),
     classes       |-> Count(code, RE_py_class),
     imports       |-> Count(code, RE_py_import),
     try_blocks    |-> Count(code, RE_py_try),
     except_blocks |-> Count(code, RE_py_except),
     comment_lines |-> Count(code, RE_py_comment),
     docstrings    |-> Count(code, RE_py_docstring),
     api_calls     |-> Count(code, RE_py_api),
     databases     |-> Count(code, RE_py_db),
     frameworks    |-> Count(code, RE_py_framework),
     async_code    |-> Count(code, RE_async)]

analyse_js_ts(code) ==
    [lines         |-> Len(code),
     functions     |-> Count(code, RE_js_function),
     classes       |-> Count(code, RE_class_name),
     imports       |-> Count(code, RE_js_import),
     try_blocks    |-> Count(code, RE_try_brace),
     comment_lines |-> Count(code, RE_js_comment),
     frameworks    |-> Count(code, RE_js_framework),
     api_calls     |-> Count(code, RE_js_api)]

analyse_dart(code) ==
    [lines      |-> Len(code),
     classes    |-> Count(code, RE_class_name),
     functions  |-> Count(code, RE_dart_function),
     imports    |-> Count(code, RE_dart_import),
     frameworks |-> Count(code, RE_dart_framework),
     async_code |-> Count(code, RE_async),
     try_blocks |-> Count(code, RE_try_brace)]

analyse_html_css(code, lang) ==
    IF lang = "HTML"
    THEN [lines |-> Len(code), tags |-> Count(code, RE_html_tag)]
    ELSE [lines |-> Len(code), selectors |-> Count(code, RE_css_selector)]

\* the dispatch of analyse() on the dominant language
Analyse(lang, code) ==
    IF lang = "Python" THEN analyse_python(code)
    ELSE IF lang \in {"JavaScript", "TypeScript"} THEN analyse_js_ts(code)
    ELSE IF lang = "Dart" THEN analyse_dart(code)
    ELSE IF lang \in {"HTML", "CSS"} THEN analyse_html_css(code, lang)
    ELSE [lines |-> Len(code)]

\* for k, v in m.items(): combined[k] = combined.get(k, 0) + v
Merge(combined, m) ==
    [k \in DOMAIN combined \cup DOMAIN m |-> GetOr0(combined, k) + GetOr0(m, k)]

-----------------------------------------------------------------------------
(* analyse_readme *)

\* "[fence]" stands for a line of three backquotes (a fenced-code marker)
README_WORDS == [l \in {"# Title", "# note", "[fence]", "pip install x",
                         "plain words here"}
                   |-> CASE l \in {"# Title", "# note"} -> 2
                         [] l = "[fence]" -> 1
                         [] OTHER -> 3]

RE_heading == {"# Title", "# note"}
RE_fence   == {"[fence]"}
RE_setup   == {"pip install x"}

\* len(text.split())
Words(text) == SumSeq([k \in DOMAIN text |-> README_WORDS[text[k]]])

analyse_readme(text) ==
    IF text = <<>> THEN 0
    ELSE LET words       == Words(text)
             headings    == Count(text, RE_heading)
             code_blocks == Count(text, RE_fence)
             has_setup   == \E k \in DOMAIN text : text[k] \in RE_setup
             score == (IF words >= 80 THEN 5 ELSE 0)
                    + (IF headings >= 3 THEN 5 ELSE 0)
                    + (IF code_blocks >= 1 THEN 5 ELSE 0)
                    + (IF has_setup THEN 5 ELSE 0)
         IN  Min(score, 20)

-----------------------------------------------------------------------------
(* score_repo *)

Bonus(cond, n) == IF cond THEN n ELSE 0

\* int(lines * 0.05) and int(lines * 0.04), exact on the integers used
Pct(lines, pct) == (lines * pct) \div 100

\* the Python bonuses with the function bonus given above 5 functions only
PythonBonusAboveFive(metrics, lines) ==
      Bonus(GetOr0(metrics, "functions") > 5, 10)
    + Bonus(GetOr0(metrics, "classes") >= 2, 10)
    + Bonus(GetOr0(metrics, "imports") >= 5, 10)
    + Bonus(GetOr0(metrics, "frameworks") >= 1, 10)
    + Bonus(GetOr0(metrics, "databases") >= 1, 10)
    + Bonus(GetOr0(metrics, "api_calls") >= 3, 5)
    + Bonus(GetOr0(metrics, "async_code") >= 2, 5)
    + Bonus(GetOr0(metrics, "try_blocks") >= 2, 10)
    + Bonus(GetOr0(metrics, "comment_lines") >= Max(8, Pct(lines, 5)), 10)

PythonBonus(metrics, lines) ==
      Bonus(GetOr0(metrics, "functions") >= 5, 10)
    + Bonus(GetOr0(metrics, "classes") >= 2, 10)
    + Bonus(GetOr0(metrics, "imports") >= 5, 10)
    + Bonus(GetOr0(metrics, "frameworks") >= 1, 10)
    + Bonus(GetOr0(metrics, "databases") >= 1, 10)
    + Bonus(GetOr0(metrics, "api_calls") >= 3, 5)
    + Bonus(GetOr0(metrics, "async_code") >= 2, 5)
    + Bonus(GetOr0(metrics, "try_blocks") >= 2, 10)
    + Bonus(GetOr0(metrics, "comment_lines") >= Max(8, Pct(lines, 5)), 10)

JsTsBonus(metrics, lines) ==
      Bonus(GetOr0(metrics, "imports") >= 5, 10)
    + Bonus(GetOr0(metrics, "classes") >= 1, 5)
    + Bonus(GetOr0(metrics, "frameworks") >= 1, 10)
    + Bonus(GetOr0(metrics, "api_calls") >= 2, 10)
    + Bonus(GetOr0(metrics, "try_blocks") >= 1, 5)
    + Bonus(GetOr0(metrics, "comment_lines") >= Max(6, Pct(lines, 4)), 5)

DartBonus(metrics) ==
      Bonus(GetOr0(metrics, "imports") >= 5, 10)
    + Bonus(GetOr0(metrics, "classes") >= 2, 10)
    + Bonus(GetOr0(metrics, "frameworks") >= 2, 10)
    + Bonus(GetOr0(metrics, "async_code") >= 2, 5)
    + Bonus(GetOr0(metrics, "try_blocks") >= 1, 5)

\* the HTML and CSS bonuses with the size comparison turned round
HtmlCssBonusBelow(metrics, lines) ==
      Bonus(lines < 200, 10)
    + Bonus(GetOr0(metrics, "tags") >= 80, 10)
    + Bonus(GetOr0(metrics, "selectors") >= 50, 10)

HtmlCssBonus(metrics, lines) ==
      Bonus(lines > 200, 10)
    + Bonus(GetOr0(metrics, "tags") >= 80, 10)
    + Bonus(GetOr0(metrics, "selectors") >= 50, 10)

\* a size bonus of 5 for each threshold
SizeBonusOfFive(lines) ==
    Bonus(lines > 150, 5) + Bonus(lines > 600, 5) + Bonus(lines > 1500, 5)

\* the universal bonuses: size, then readme and tests
SizeBonus(lines) ==
    Bonus(lines > 150, 10) + Bonus(lines > 600, 10) + Bonus(lines > 1500, 10)

ReadmeTestBonus(readme, tests) ==
      Bonus(readme >= 10, 5) + Bonus(readme >= 15, 5)
    + Bonus(tests >= 1, 5) + Bonus(tests >= 5, 5)

LangBonus(lang, metrics, lines) ==
    IF lang = "Python" THEN PythonBonus(metrics, lines)
    ELSE IF lang \in {"JavaScript", "TypeScript"} THEN JsTsBonus(metrics, lines)
    ELSE IF lang = "Dart" THEN DartBonus(metrics)
    ELSE IF lang \in {"HTML", "CSS"} THEN HtmlCssBonus(metrics, lines)
    ELSE 0

\* the score without the cap
Unclamped(score) == score

\* return min(100, score)
Clamp(score) == Min(100, score)

score_repo(lang, metrics, readme, tests) ==
    LET lines == GetOr0(metrics, "lines")
    IN  Clamp(20 + SizeBonus(lines) + ReadmeTestBonus(readme, tests)
                 + LangBonus(lang, metrics, lines))

-----------------------------------------------------------------------------
(* The remote: the repositories the host may list, their trees and files *)

\* files of the repository "big", which has more code files than MaxFetch
BigCount == 122

\* for path in code_files[:120]
MaxFetch == 120

\* def get_repos(self, max_repos: int = 8)
MAX_REPOS == 8

\* the order in which the host lists the repositories it returns
UNIVERSE == <<"py", "web", "assets", "sh", "empty", "bad", "fork", "zero">>

\* further repositories of an account that has more than MAX_REPOS of them
EXTRA == <<"r1", "r2", "r3", "r4", "r5">>

\* the repositories of the host: those above, the large one and the further
\* ones
NAMES == Range(UNIVERSE) \cup {"big"} \cup Range(EXTRA)

REPO_INFO ==
    [n \in NAMES |->
        [name      |-> n,
         fork      |-> (n = "fork"),
         size      |-> IF n = "zero" THEN 0 ELSE 40,
         pushed_at |-> CASE n = "py" -> 5 [] n = "web" -> 7 [] n = "assets" -> 5
                         [] n = "sh" -> 2 [] n = "big" -> 3 [] n = "empty" -> 6
                         [] n = "bad" -> 1 [] n = "fork" -> 9
                         [] n = "r1" -> 4 [] n = "r2" -> 7 [] n = "r3" -> 0
                         [] n = "r4" -> 4 [] n = "r5" -> 3 [] OTHER -> 8,
         html_url  |-> n]]

Rep(line, n) == [k \in 1..n |-> line]

DIGITS == <<"0","1","2","3","4","5","6","7","8","9">>

P_root   == <<>>
P_s      == <<"s">>
P_s_a    == <<"s","/","a",".","p","y">>
P_s_test == <<"s","/","t","e","s","t">>
P_s_t    == <<"s","/","t","e","s","t","/","t",".","p","y">>
P_s_B    == <<"s","/","B",".","P","Y">>
P_m      == <<"m",".","p","y">>
P_R      == <<"R",".","m","d">>
P_ln     == <<"l","n">>
P_i      == <<"i",".","t","s">>
P_j      == <<"j",".","j","s">>
P_k      == <<"k",".","c","s","s">>
P_l      == <<"l",".","p","n","g">>
P_p      == <<"p",".","l","o","c","k">>
P_x      == <<"x",".","s","h">>
P_latest == <<"l","a","t","e","s","t",".","s","q","l">>
P_n      == <<"n",".","p","y">>
P_q      == <<"q",".","p","y">>

BigPath(k) ==
    <<"f", DIGITS[(k \div 100) + 1], DIGITS[((k \div 10) % 10) + 1],
      DIGITS[(k % 10) + 1], ".", "p", "y">>

\* a base64 payload: the units its complete quads decode to, the data
\* characters left over after the last complete quad, and the "=" after them
B64(units)    == [quads |-> units, extra |-> 0, pads |-> 0]

BadB64(units) == [quads |-> units, extra |-> 1, pads |-> 0]

\* a unit that is no valid UTF-8
JUNK == "[0xff]"

Dir(items) == [json |-> "list", items |-> items]

File(path) == [type |-> "file", path |-> path]

Sub(path) == [type |-> "dir", path |-> path]

FileObj(path, encoding, content) ==
    [json |-> "dict", type |-> "file", path |-> path,
     encoding |-> encoding, content |-> content]

CODE_m ==
    Rep("def f(a):", 6) \o Rep("class A:", 3)
        \o <<"import sqlite3">> \o Rep("import flask", 5)
        \o Rep("try:", 3) \o Rep("except E:", 3) \o Rep("# note", 40)
        \o Rep("x = 1", 639)

TREE_py ==
    (P_root :> Dir(<<Sub(P_s), File(P_m), [type |-> "symlink", path |-> P_ln],
                     File(P_R)>>))
    @@ (P_s :> Dir(<<File(P_s_a), Sub(P_s_test), File(P_s_B)>>))
    @@ (P_s_test :> Dir(<<File(P_s_t)>>))
    @@ (P_s_a :> FileObj(P_s_a, "base64",
                   B64(<<"r = requests.get(u)", "await g()", "'''doc'''", "x = 1">>)))
    @@ (P_s_t :> FileObj(P_s_t, "base64", B64(<<"def f(a):", "x = 1">>)))
    @@ (P_s_B :> FileObj(P_s_B, "base64", BadB64(<<"x = 1">>)))
    @@ (P_m :> FileObj(P_m, "base64", B64(CODE_m)))
    @@ (P_R :> FileObj(P_R, "base64", B64(<<"# Title">>)))

TREE_web ==
    (P_root :> Dir(<<File(P_i), File(P_j), File(P_k)>>))
    @@ (P_i :> FileObj(P_i, "base64",
                 B64(<<"import React from 'r'", "class A:", "const f = (a) => a",
                       "try {", "// c", "fetch(u)", "fetch(u)">>)))
    @@ (P_j :> FileObj(P_j, "base64", B64(<<"fetch(u)">>)))
    @@ (P_k :> FileObj(P_k, "base64", B64(<<".a { top: 0 }">>)))

TREE_assets ==
    (P_root :> Dir(<<File(P_l), File(P_p)>>))
    @@ (P_l :> FileObj(P_l, "base64", B64(<<JUNK>>)))
    @@ (P_p :> FileObj(P_p, "base64", B64(<<"x = 1">>)))

TREE_sh ==
    (P_root :> Dir(<<File(P_x), File(P_latest), File(P_n)>>))
    @@ (P_x :> FileObj(P_x, "base64", B64(Rep("x = 1", 3))))
    @@ (P_latest :> FileObj(P_latest, "none", B64(<<>>)))
    @@ (P_n :> FileObj(P_n, "base64", B64(<<"def f(a):", JUNK, "x = 1">>)))

TREE_big ==
    [p \in {P_root} \cup {BigPath(k) : k \in 1..BigCount} |->
        IF p = P_root
        THEN Dir([k \in 1..BigCount |-> File(BigPath(k))])
        ELSE LET k == CHOOSE n \in 1..BigCount : BigPath(n) = p
             IN  FileObj(p, "base64", B64(<<"def f(a):">> \o Rep("x = 1", k % 3)))]

TREE_empty == (P_root :> Dir(<<>>))

TREE_bad ==
    (P_root :> Dir(<<File(P_q)>>))
    @@ (P_q :> FileObj(P_q, "base64", B64(<<"x = 1">>)))

TREE ==
    [n \in NAMES |->
        CASE n = "py" -> TREE_py [] n = "web" -> TREE_web
          [] n = "assets" -> TREE_assets [] n = "sh" -> TREE_sh
          [] n = "big" -> TREE_big [] n = "bad" -> TREE_bad
          [] OTHER -> TREE_empty]

P_README == <<"R","E","A","D","M","E",".","m","d">>

Ok(body) == [status |-> 200, body |-> body]

NotFound == [status |-> 404, body |-> [json |-> "none"]]

README ==
    [n \in NAMES |->
        CASE n = "py" ->
               Ok(FileObj(P_README, "base64",
                    B64(Rep("# Title", 3) \o <<"[fence]", "pip install x">>
                          \o Rep("plain words here", 27))))
          [] n = "web" -> Ok(FileObj(P_README, "none", B64(<<>>)))
          [] n = "sh" ->
               Ok(FileObj(P_README, "base64",
                    B64(<<JUNK, "# Title", JUNK, "pip install x">>)))
          [] n = "big" -> Ok(Dir(<<File(P_README)>>))
          [] n = "bad" -> Ok(FileObj(P_README, "base64", BadB64(<<"# Title">>)))
          [] OTHER -> NotFound]

ReposUrl == [kind |-> "repos", repo |-> "", path |-> <<>>]

ReadmeUrl(repo) == [kind |-> "readme", repo |-> repo, path |-> <<>>]

ContentsUrl(repo, path) == [kind |-> "contents", repo |-> repo, path |-> path]

\* what the host answers to a URL when the listing holds the names in raw
Remote(raw, url) ==
    CASE url.kind = "repos" ->
           Ok(Dir([k \in DOMAIN raw |-> REPO_INFO[raw[k]]]))
      [] url.kind = "readme" -> README[url.repo]
      [] OTHER ->
           IF url.path \in DOMAIN TREE[url.repo]
           THEN Ok(TREE[url.repo][url.path])
           ELSE NotFound

\* the URLs of a repository that may be down
FAIL_POINTS ==
    [n \in NAMES |->
        CASE n = "py" -> {ContentsUrl(n, P_root), ContentsUrl(n, P_s_test),
                          ContentsUrl(n, P_m), ReadmeUrl(n)}
          [] n = "web" -> {ContentsUrl(n, P_root), ContentsUrl(n, P_i)}
          [] n = "assets" -> {ContentsUrl(n, P_root)}
          [] n = "sh" -> {ContentsUrl(n, P_root), ContentsUrl(n, P_x)}
          [] n = "big" -> {ContentsUrl(n, BigPath(1)), ContentsUrl(n, BigPath(2)),
                           ContentsUrl(n, BigPath(MaxFetch)),
                           ContentsUrl(n, BigPath(MaxFetch + 1)), ReadmeUrl(n)}
          [] n = "empty" -> {ContentsUrl(n, P_root)}
          [] n = "bad" -> {ContentsUrl(n, P_root)}
          [] OTHER -> {}]

-----------------------------------------------------------------------------
(* _get and the methods that call it *)

\* _get: the JSON body, or an exception when the status is not 200
Get(raw, dn, url) ==
    LET res == Remote(raw, url)
    IN  IF url \in dn \/ res.status # 200
        THEN [ok |-> FALSE, body |-> [json |-> "none"]]
        ELSE [ok |-> TRUE, body |-> res.body]

\* an insertion that puts x before the elements of equal key: a sort that is
\* not stable
RECURSIVE InsertBeforeEqual(_, _)
InsertBeforeEqual(sorted, x) ==
    IF sorted = <<>> THEN <<x>>
    ELSE IF Head(sorted).key > x.key
         THEN <<Head(sorted)>> \o InsertBeforeEqual(Tail(sorted), x)
         ELSE <<x>> \o sorted

\* stable insertion of x into a sequence sorted by key, descending
RECURSIVE InsertDesc(_, _)
InsertDesc(sorted, x) ==
    IF sorted = <<>> THEN <<x>>
    ELSE IF Head(sorted).key >= x.key
         THEN <<Head(sorted)>> \o InsertDesc(Tail(sorted), x)
         ELSE <<x>> \o sorted

\* list.sort(key=..., reverse=True) on [key, val] pairs: the values in order
RECURSIVE SortDescFrom(_, _, _)
SortDescFrom(pairs, k, sorted) ==
    IF k > Len(pairs) THEN [n \in DOMAIN sorted |-> sorted[n].val]
    ELSE SortDescFrom(pairs, k + 1, InsertDesc(sorted, pairs[k]))

SortDesc(pairs) == SortDescFrom(pairs, 1, <<>>)

\* the filter and the sort without the cut
UsefulReposUncut(listed, max_repos) ==
    LET useful == SelectSeq(listed, LAMBDA r : ~r.fork /\ r.size > 0)
    IN  SortDesc([k \in DOMAIN useful |->
                    [key |-> useful[k].pushed_at, val |-> useful[k]]])

\* the filter, the sort and the cut of get_repos on a listing that arrived
UsefulRepos(listed, max_repos) ==
    LET useful == SelectSeq(listed, LAMBDA r : ~r.fork /\ r.size > 0)
    IN  Take(SortDesc([k \in DOMAIN useful |->
                         [key |-> useful[k].pushed_at, val |-> useful[k]]]),
             max_repos)

get_repos(raw, dn, max_repos) ==
    LET res == Get(raw, dn, ReposUrl)
    IN  IF ~res.ok THEN [ok |-> FALSE, repos |-> <<>>]
        ELSE [ok |-> TRUE, repos |-> UsefulRepos(res.body.items, max_repos)]

\* list_files: [ok, files, calls]; ok is FALSE when a _get raised, which ends
\* the walk; calls are the URLs requested
RECURSIVE list_files(_, _, _, _)
RECURSIVE WalkRange(_, _, _, _, _, _, _)
list_files(raw, dn, repo, path) ==
    LET url == ContentsUrl(repo, path)
        res == Get(raw, dn, url)
    IN  IF ~res.ok THEN [ok |-> FALSE, files |-> <<>>, calls |-> <<url>>]
        ELSE IF res.body.json = "dict" /\ res.body.type = "file"
        THEN [ok |-> TRUE, files |-> <<res.body.path>>, calls |-> <<url>>]
        ELSE WalkRange(raw, dn, repo, res.body.items, 1, Len(res.body.items),
                       [ok |-> TRUE, files |-> <<>>, calls |-> <<url>>])

\* a turn that puts the files of a subdirectory before the files found so far
WalkOneSubFirst(raw, dn, repo, item, acc) ==
    IF item.type = "file"
    THEN [acc EXCEPT !.files = Append(@, item.path)]
    ELSE IF item.type = "dir"
    THEN LET sub == list_files(raw, dn, repo, item.path)
         IN  [ok    |-> sub.ok,
              files |-> IF sub.ok THEN sub.files \o acc.files ELSE <<>>,
              calls |-> acc.calls \o sub.calls]
    ELSE acc

\* a turn that goes on after a subdirectory could not be listed and keeps the
\* files found so far
WalkOnePartial(raw, dn, repo, item, acc) ==
    IF item.type = "file"
    THEN [acc EXCEPT !.files = Append(@, item.path)]
    ELSE IF item.type = "dir"
    THEN LET sub == list_files(raw, dn, repo, item.path)
         IN  [ok    |-> TRUE,
              files |-> acc.files \o sub.files,
              calls |-> acc.calls \o sub.calls]
    ELSE acc

\* one turn of the for loop of list_files
WalkOne(raw, dn, repo, item, acc) ==
    IF item.type = "file"
    THEN [acc EXCEPT !.files = Append(@, item.path)]
    ELSE IF item.type = "dir"
    THEN LET sub == list_files(raw, dn, repo, item.path)
         IN  [ok    |-> sub.ok,
              files |-> IF sub.ok THEN acc.files \o sub.files ELSE <<>>,
              calls |-> acc.calls \o sub.calls]
    ELSE acc

\* for item in items[lo..hi], in order, until a _get raises; the range is
\* halved to keep the evaluation shallow
WalkRange(raw, dn, repo, items, lo, hi, acc) ==
    IF lo > hi \/ ~acc.ok THEN acc
    ELSE IF lo = hi THEN WalkOne(raw, dn, repo, items[lo], acc)
    ELSE LET mid  == (lo + hi) \div 2
             left == WalkRange(raw, dn, repo, items, lo, mid, acc)
         IN  WalkRange(raw, dn, repo, items, mid + 1, hi, left)

\* base64.b64decode: the padding rule of binascii.a2b_base64
b64decode(content) ==
    IF content.extra = 0 \/ (content.extra >= 2 /\ content.extra + content.pads >= 4)
    THEN [ok |-> TRUE, bytes |-> content.quads]
    ELSE [ok |-> FALSE, bytes |-> <<>>]

\* bytes.decode("utf-8", errors="ignore")
decode_ignore(bytes) == SelectSeq(bytes, LAMBDA u : u # JUNK)

\* fetch_readme: [raised, text, calls]
fetch_readme(raw, dn, repo) ==
    LET url == ReadmeUrl(repo)
        res == Get(raw, dn, url)
    IN  IF ~res.ok THEN [raised |-> FALSE, text |-> <<>>, calls |-> <<url>>]
        ELSE IF res.body.json = "dict" /\ res.body.encoding = "base64"
        THEN LET dec == b64decode(res.body.content)
             IN  IF dec.ok
                 THEN [raised |-> FALSE, text |-> decode_ignore(dec.bytes),
                       calls |-> <<url>>]
                 ELSE [raised |-> TRUE, text |-> <<>>, calls |-> <<url>>]
        ELSE [raised |-> FALSE, text |-> <<>>, calls |-> <<url>>]

\* fetch_file_content: [raised, text]
fetch_file_content(raw, dn, repo, path) ==
    LET res == Get(raw, dn, ContentsUrl(repo, path))
    IN  IF ~res.ok \/ res.body.json # "dict" THEN [raised |-> TRUE, text |-> <<>>]
        ELSE IF res.body.encoding = "base64"
        THEN LET dec == b64decode(res.body.content)
             IN  IF dec.ok
                 THEN [raised |-> FALSE, text |-> decode_ignore(dec.bytes)]
                 ELSE [raised |-> TRUE, text |-> <<>>]
        ELSE [raised |-> FALSE, text |-> <<>>]

\* a selection that takes for TypeScript the files in .ts only
match_dom_ts(lang, p) ==
    LET lp == Lower(p)
    IN  CASE lang = "Python" -> EndsWith(lp, <<".","p","y">>)
          [] lang = "TypeScript" -> EndsWith(lp, <<".","t","s">>)
          [] lang = "JavaScript" ->
               EndsWith(lp, <<".","j","s">>) \/ EndsWith(lp, <<".","j","s","x">>)
          [] lang = "Dart" -> EndsWith(lp, <<".","d","a","r","t">>)
          [] lang = "HTML" -> EndsWith(lp, <<".","h","t","m","l">>)
          [] lang = "CSS" ->
               EndsWith(lp, <<".","c","s","s">>) \/ EndsWith(lp, <<".","s","c","s","s">>)
          [] OTHER -> \E ext \in CODE_EXTS : EndsWith(lp, ext)

\* a selection that takes every file when the language has no extension of
\* its own
match_dom_any(lang, p) ==
    LET lp == Lower(p)
    IN  CASE lang = "Python" -> EndsWith(lp, <<".","p","y">>)
          [] lang = "TypeScript" ->
               EndsWith(lp, <<".","t","s">>) \/ EndsWith(lp, <<".","t","s","x">>)
          [] lang = "JavaScript" ->
               EndsWith(lp, <<".","j","s">>) \/ EndsWith(lp, <<".","j","s","x">>)
          [] lang = "Dart" -> EndsWith(lp, <<".","d","a","r","t">>)
          [] lang = "HTML" -> EndsWith(lp, <<".","h","t","m","l">>)
          [] lang = "CSS" ->
               EndsWith(lp, <<".","c","s","s">>) \/ EndsWith(lp, <<".","s","c","s","s">>)
          [] OTHER -> TRUE

\* match_dom of analyse()
match_dom(lang, p) ==
    LET lp == Lower(p)
    IN  CASE lang = "Python" -> EndsWith(lp, <<".","p","y">>)
          [] lang = "TypeScript" ->
               EndsWith(lp, <<".","t","s">>) \/ EndsWith(lp, <<".","t","s","x">>)
          [] lang = "JavaScript" ->
               EndsWith(lp, <<".","j","s">>) \/ EndsWith(lp, <<".","j","s","x">>)
          [] lang = "Dart" -> EndsWith(lp, <<".","d","a","r","t">>)
          [] lang = "HTML" -> EndsWith(lp, <<".","h","t","m","l">>)
          [] lang = "CSS" ->
               EndsWith(lp, <<".","c","s","s">>) \/ EndsWith(lp, <<".","s","c","s","s">>)
          [] OTHER -> \E ext \in CODE_EXTS : EndsWith(lp, ext)

\* "test" in p.lower() or "tests/" in p.lower()
IsTestFile(p) ==
    \/ Contains(Lower(p), <<"t","e","s","t">>)
    \/ Contains(Lower(p), <<"t","e","s","t","s","/">>)

\* one turn of the loop over code_files[:120]: acc is [combined, calls]
CombineOne(raw, dn, repo, lang, path, acc) ==
    LET got == fetch_file_content(raw, dn, repo, path)
        log == Append(acc.calls, ContentsUrl(repo, path))
    IN  IF got.raised
        THEN [combined |-> acc.combined, calls |-> log]
        ELSE [combined |-> Merge(acc.combined, Analyse(lang, got.text)),
              calls |-> log]

\* the loop over fetched[lo..hi], in order; the range is halved to keep the
\* evaluation shallow
RECURSIVE CombineRange(_, _, _, _, _, _, _, _)
CombineRange(raw, dn, repo, lang, fetched, lo, hi, acc) ==
    IF lo > hi \/ ~Forced(acc) THEN acc
    ELSE IF lo = hi THEN CombineOne(raw, dn, repo, lang, fetched[lo], acc)
    ELSE LET mid  == (lo + hi) \div 2
             left == CombineRange(raw, dn, repo, lang, fetched, lo, mid, acc)
         IN  CombineRange(raw, dn, repo, lang, fetched, mid + 1, hi, left)

\* the whole list, without the cut
FetchEvery(code_files) == code_files

\* code_files[:120]
FetchList(code_files) == Take(code_files, MaxFetch)

Combine(raw, dn, repo, lang, code_files) ==
    LET fetched == FetchList(code_files)
    IN  CombineRange(raw, dn, repo, lang, fetched, 1, Len(fetched),
                     [combined |-> [lines |-> 0], calls |-> <<>>])

-----------------------------------------------------------------------------
(* analyse() *)

\* sorted(repo_summaries, key=depth_score, reverse=True)[:3]
TOP_N == 3

TopOf(summaries) ==
    Take(SortDesc([k \in DOMAIN summaries |->
                     [key |-> summaries[k].depth_score, val |-> summaries[k]]]),
         TOP_N)

\* the sum divided by 3, however many records there are
MeanOfThree(recs) ==
    SumSeq([k \in DOMAIN recs |-> recs[k].depth_score]) \div 3

\* int(sum(depth_score of top) / len(top))
MeanInt(recs) ==
    SumSeq([k \in DOMAIN recs |-> recs[k].depth_score]) \div Len(recs)

Summary(repo, lang, counts, n_code, metrics, readme, tests) ==
    [name               |-> repo.name,
     dominant_language  |-> lang,
     language_breakdown |-> counts,
     code_files         |-> n_code,
     metrics            |-> metrics,
     readme_quality     |-> readme,
     test_files         |-> tests,
     depth_score        |-> score_repo(lang, metrics, readme, tests),
     html_url           |-> repo.html_url]

NoResult == [repos |-> <<>>, overall_depth_score |-> 0]

NoCall == [fn |-> ""]

NoRet == [done |-> FALSE]

\* the remote listings: at most MaxListing repositories, in the host's order
Listings ==
    {SelectSeq(UNIVERSE, LAMBDA n : n \in S) :
        S \in {T \in SUBSET Range(UNIVERSE) : Cardinality(T) <= MaxListing}}

\* the outages: the listing URL alone, or any URLs of the listed repositories
Outages(raw) ==
    {{ReposUrl}} \cup SUBSET (UNION {FAIL_POINTS[n] : n \in Range(raw)})

Init ==
    /\ listing \in Listings
    /\ down \in Outages(listing)
    /\ pc = "start"
    /\ repos = <<>>
    /\ i = 0
    /\ files = <<>>
    /\ lang_counts = <<>>
    /\ dom_lang = ""
    /\ test_count = 0
    /\ readme_score = 0
    /\ repo_summaries = <<>>
    /\ top = <<>>
    /\ result = NoResult
    /\ error = ""
    /\ requests = <<>>
    /\ call = NoCall
    /\ ret = NoRet

\* repos = self.get_repos(); an exception of _get leaves analyse()
GetRepos ==
    /\ pc = "start"
    /\ LET got == get_repos(listing, down, MAX_REPOS)
       IN  /\ requests' = Append(requests, ReposUrl)
           /\ IF got.ok
              THEN /\ repos' = got.repos
                   /\ i' = 1
                   /\ pc' = "list_files"
                   /\ error' = error
              ELSE /\ pc' = "raised"
                   /\ error' = "Exception"
                   /\ UNCHANGED <<repos, i>>
    /\ UNCHANGED <<listing, down, files, lang_counts, dom_lang, test_count,
                   readme_score, repo_summaries, top, result, call, ret>>

\* a loop that goes on with a repository in which no file was found
KeepEmpty(fs) == FALSE

\* if not files
NoFiles(fs) == fs = <<>>

\* files = self.list_files(name); except Exception: continue;
\* if not files: continue
ListFiles ==
    /\ pc = "list_files"
    /\ i <= Len(repos)
    /\ LET walk == list_files(listing, down, repos[i].name, P_root)
       IN  /\ requests' = requests \o walk.calls
           /\ IF ~walk.ok
              THEN /\ i' = i + 1
                   /\ UNCHANGED <<files, pc>>
              ELSE IF NoFiles(walk.files)
              THEN /\ files' = walk.files
                   /\ i' = i + 1
                   /\ pc' = pc
              ELSE /\ files' = walk.files
                   /\ pc' = "classify"
                   /\ i' = i
    /\ UNCHANGED <<listing, down, repos, lang_counts, dom_lang, test_count,
                   readme_score, repo_summaries, top, result, error, call, ret>>

\* lang_counts, dom_lang and test_count of the current repository
Classify ==
    /\ pc = "classify"
    /\ lang_counts' = detect_languages(files)
    /\ dom_lang' = dominant_language(lang_counts')
    /\ test_count' = Cardinality({k \in DOMAIN files : IsTestFile(files[k])})
    /\ pc' = "readme"
    /\ UNCHANGED <<listing, down, repos, i, files, readme_score, repo_summaries,
                   top, result, error, requests, call, ret>>

\* readme_text = self.fetch_readme(name); readme_score of analyse_readme;
\* an exception of fetch_readme leaves analyse()
FetchReadme ==
    /\ pc = "readme"
    /\ LET got == fetch_readme(listing, down, repos[i].name)
       IN  /\ requests' = requests \o got.calls
           /\ IF got.raised
              THEN /\ pc' = "raised"
                   /\ error' = "binascii.Error"
                   /\ readme_score' = readme_score
              ELSE /\ readme_score' = analyse_readme(got.text)
                   /\ pc' = "code_files"
                   /\ error' = error
    /\ UNCHANGED <<listing, down, repos, i, files, lang_counts, dom_lang,
                   test_count, repo_summaries, top, result, call, ret>>

\* code_files = [p for p in files if match_dom(p)]
CodeFiles(fs, lang) == SelectSeq(fs, LAMBDA p : match_dom(lang, p))

\* the rest of the loop body: the record of a repository without code files,
\* or the metrics combined over code_files[:120] and the record scored on them
ScoreRepo ==
    /\ pc = "code_files"
    /\ LET code_files == CodeFiles(files, dom_lang)
       IN  IF code_files = <<>>
           THEN /\ repo_summaries' =
                      Append(repo_summaries,
                             Summary(repos[i], dom_lang, lang_counts, 0,
                                     [lines |-> 0], readme_score, test_count))
                /\ requests' = requests
           ELSE LET done == Combine(listing, down, repos[i].name, dom_lang,
                                    code_files)
                IN  /\ repo_summaries' =
                          Append(repo_summaries,
                                 Summary(repos[i], dom_lang, lang_counts,
                                         Len(code_files), done.combined,
                                         readme_score, test_count))
                    /\ requests' = requests \o done.calls
    /\ i' = i + 1
    /\ pc' = "list_files"
    /\ UNCHANGED <<listing, down, repos, files, lang_counts, dom_lang,
                   test_count, readme_score, top, result, error, call, ret>>

\* after the loop: the empty result, or the mean of the top three
Return ==
    /\ pc = "list_files"
    /\ i > Len(repos)
    /\ IF repo_summaries = <<>>
       THEN /\ result' = [repos |-> <<>>, overall_depth_score |-> 0]
            /\ top' = top
       ELSE /\ top' = TopOf(repo_summaries)
            /\ result' = [repos |-> repo_summaries,
                          overall_depth_score |-> MeanInt(top')]
    /\ pc' = "done"
    /\ UNCHANGED <<listing, down, repos, i, files, lang_counts, dom_lang,
                   test_count, readme_score, repo_summaries, error, requests,
                   call, ret>>

\* a second call that starts with the summaries of the first, as it would if
\* repo_summaries were kept on the engine
AgainKeeping ==
    /\ pc \in {"done", "raised"}
    /\ ~ret.done
    /\ ret' = [done |-> TRUE, result |-> result, error |-> error,
               summaries |-> repo_summaries]
    /\ pc' = "start"
    /\ repos' = <<>>
    /\ i' = 0
    /\ files' = <<>>
    /\ lang_counts' = <<>>
    /\ dom_lang' = ""
    /\ test_count' = 0
    /\ readme_score' = 0
    /\ top' = <<>>
    /\ result' = NoResult
    /\ error' = ""
    /\ requests' = <<>>
    /\ UNCHANGED <<listing, down, repo_summaries, call>>

\* analyse() is called a second time on the same engine, the remote being as
\* it was: ret keeps what the first call returned or raised, and the locals of
\* the new call are fresh (the engine keeps username and base_api only)
Again ==
    /\ pc \in {"done", "raised"}
    /\ ~ret.done
    /\ ret' = [done |-> TRUE, result |-> result, error |-> error,
               summaries |-> repo_summaries]
    /\ pc' = "start"
    /\ repos' = <<>>
    /\ i' = 0
    /\ files' = <<>>
    /\ lang_counts' = <<>>
    /\ dom_lang' = ""
    /\ test_count' = 0
    /\ readme_score' = 0
    /\ repo_summaries' = <<>>
    /\ top' = <<>>
    /\ result' = NoResult
    /\ error' = ""
    /\ requests' = <<>>
    /\ UNCHANGED <<listing, down, call>>

Next ==
    \/ GetRepos
    \/ ListFiles
    \/ Classify
    \/ FetchReadme
    \/ ScoreRepo
    \/ Return
    \/ Again

Spec == Init /\ [][Next]_vars

\* analyse() on an account that holds the large repository
CapListings == {<<"big">>, <<"web", "big">>, <<"big", "empty">>}

CapInit ==
    /\ listing \in CapListings
    /\ down \in Outages(listing)
    /\ pc = "start"
    /\ repos = <<>>
    /\ i = 0
    /\ files = <<>>
    /\ lang_counts = <<>>
    /\ dom_lang = ""
    /\ test_count = 0
    /\ readme_score = 0
    /\ repo_summaries = <<>>
    /\ top = <<>>
    /\ result = NoResult
    /\ error = ""
    /\ requests = <<>>
    /\ call = NoCall
    /\ ret = NoRet

SpecCap == CapInit /\ [][Next]_vars

-----------------------------------------------------------------------------
(* detect_languages and dominant_language called on their own *)

\* the variables of analyse(), idle while a single method is called
idleVars == <<listing, down, repos, i, files, lang_counts, dom_lang, test_count,
              readme_score, repo_summaries, top, result, error, requests>>

Idle ==
    /\ listing = <<>>
    /\ down = {}
    /\ repos = <<>>
    /\ i = 0
    /\ files = <<>>
    /\ lang_counts = <<>>
    /\ dom_lang = ""
    /\ test_count = 0
    /\ readme_score = 0
    /\ repo_summaries = <<>>
    /\ top = <<>>
    /\ result = NoResult
    /\ error = ""
    /\ requests = <<>>

\* the longest file list passed to detect_languages
MaxFiles == 3

\* paths with a table extension in either case, with an extension outside
\* the table, and without extension
SAMPLE_PATHS ==
    {P_m, P_s_B, P_i, P_j, P_k, P_R, P_ln, P_l, P_x,
     <<"a",".","j","s","o","n">>, <<"c",".","y","m","l">>,
     <<"h",".","h","t","m","l">>, <<"d",".","d","a","r","t">>,
     <<"v",".","t","s","x">>, <<"w",".","s","c","s","s">>}

FileLists == UNION {[1..n -> SAMPLE_PATHS] : n \in 0..MaxFiles}

LangInit ==
    /\ Idle
    /\ pc = "call"
    /\ call \in {[fn |-> "detect_languages", files |-> fs] : fs \in FileLists}
    /\ ret = NoRet

\* lang_counts = self.detect_languages(files);
\* dom_lang = self.dominant_language(lang_counts)
DetectLanguages ==
    /\ pc = "call"
    /\ call.fn = "detect_languages"
    /\ LET counts == detect_languages(call.files)
       IN  ret' = [done |-> TRUE, counts |-> counts,
                   lang |-> dominant_language(counts)]
    /\ pc' = "returned"
    /\ UNCHANGED <<idleVars, call>>

\* code_files = [p for p in files if match_dom(p)], for the dominant language
\* found
SelectCode ==
    /\ pc = "returned"
    /\ call.fn = "detect_languages"
    /\ ret' = [done |-> TRUE, counts |-> ret.counts, lang |-> ret.lang,
               code_files |-> CodeFiles(call.files, ret.lang)]
    /\ pc' = "selected"
    /\ UNCHANGED <<idleVars, call>>

NextLang ==
    \/ DetectLanguages
    \/ SelectCode

SpecLang == LangInit /\ [][NextLang]_vars

-----------------------------------------------------------------------------
(* get_repos called on its own *)

\* the sequences of k different names out of the set names
RECURSIVE Arrangements(_, _)
Arrangements(names, k) ==
    IF k = 0 THEN {<<>>}
    ELSE {Append(s, n) : s \in Arrangements(names, k - 1), n \in names}
            \ {s \in [1..k -> names] : \E a, b \in 1..k : a # b /\ s[a] = s[b]}

\* what the host may list: up to MaxListing repositories in any order, or an
\* account of more than MAX_REPOS repositories in one of three orders
RepoListings ==
    UNION {Arrangements(Range(UNIVERSE), k) : k \in 0..MaxListing}
    \cup {UNIVERSE \o EXTRA, EXTRA \o UNIVERSE,
          <<"r4", "sh", "r1", "py", "r3", "assets", "r5", "web", "fork", "r2",
            "empty", "zero", "bad">>}

ReposInit ==
    /\ listing \in RepoListings
    /\ down \in {{}, {ReposUrl}}
    /\ repos = <<>>
    /\ i = 0
    /\ files = <<>>
    /\ lang_counts = <<>>
    /\ dom_lang = ""
    /\ test_count = 0
    /\ readme_score = 0
    /\ repo_summaries = <<>>
    /\ top = <<>>
    /\ result = NoResult
    /\ error = ""
    /\ requests = <<>>
    /\ pc = "call"
    /\ call \in {[fn |-> "get_repos", max_repos |-> n] : n \in {0, 1, 2, 3, MAX_REPOS}}
    /\ ret = NoRet

\* self.get_repos(max_repos)
GetReposCall ==
    /\ pc = "call"
    /\ call.fn = "get_repos"
    /\ LET got == get_repos(listing, down, call.max_repos)
       IN  /\ ret' = [done |-> TRUE, raised |-> ~got.ok, repos |-> got.repos]
           /\ requests' = Append(requests, ReposUrl)
    /\ pc' = "returned"
    /\ UNCHANGED <<listing, down, repos, i, files, lang_counts, dom_lang,
                   test_count, readme_score, repo_summaries, top, result,
                   error, call>>

SpecRepos == ReposInit /\ [][GetReposCall]_vars

-----------------------------------------------------------------------------
(* list_files called on its own *)

\* list_files(repo, path) for each path of each tree, the remote being up
WalkInit ==
    /\ Idle
    /\ pc = "call"
    /\ call \in {[fn |-> "list_files", repo |-> n, path |-> p] :
                    n \in {"py", "web", "assets", "sh", "big", "empty", "bad"},
                    p \in UNION {DOMAIN TREE[m] : m \in NAMES}}
    /\ call.path \in DOMAIN TREE[call.repo]
    /\ ret = NoRet

\* self.list_files(repo_name, path)
ListFilesCall ==
    /\ pc = "call"
    /\ call.fn = "list_files"
    /\ LET walk == list_files(listing, down, call.repo, call.path)
       IN  ret' = [done |-> TRUE, raised |-> ~walk.ok, files |-> walk.files,
                   calls |-> walk.calls]
    /\ pc' = "returned"
    /\ UNCHANGED <<idleVars, call>>

SpecWalk == WalkInit /\ [][ListFilesCall]_vars

-----------------------------------------------------------------------------
(* score_repo called on its own *)

SCORE_LANGS == {"Python", "JavaScript", "TypeScript", "Dart", "HTML", "CSS",
                "Shell", "Unknown"}

\* line counts on both sides of each size threshold
SCORE_LINES == {0, 149, 150, 151, 200, 599, 600, 601, 700, 1499, 1500, 1501, 1600}

\* comment counts on both sides of the comment floors
SCORE_COMMENTS == {0, 6, 8, 29, 74, 80}

\* the value of every other metric
SCORE_LEVELS == {0, 1, 5}

SCORE_READMES == {0, 10, 20}

SCORE_TESTS == {0, 1, 5}

\* a metrics dictionary with the keys the analyser of lang produces
ScoreMetrics(lang, lines, comments, level) ==
    IF lang = "Python"
    THEN [lines |-> lines, functions |-> level, classes |-> level,
          imports |-> level, try_blocks |-> level, except_blocks |-> level,
          comment_lines |-> comments, docstrings |-> level, api_calls |-> level,
          databases |-> level, frameworks |-> level, async_code |-> level]
    ELSE IF lang \in {"JavaScript", "TypeScript"}
    THEN [lines |-> lines, functions |-> level, classes |-> level,
          imports |-> level, try_blocks |-> level, comment_lines |-> comments,
          frameworks |-> level, api_calls |-> level]
    ELSE IF lang = "Dart"
    THEN [lines |-> lines, classes |-> level, functions |-> level,
          imports |-> level, frameworks |-> level, async_code |-> level,
          try_blocks |-> level]
    ELSE IF lang = "HTML" THEN [lines |-> lines, tags |-> level * 16]
    ELSE IF lang = "CSS" THEN [lines |-> lines, selectors |-> level * 10]
    ELSE [lines |-> lines]

ScoreCalls ==
    {[fn |-> "score_repo", lang |-> lang,
      metrics |-> ScoreMetrics(lang, lines, comments, level),
      readme |-> readme, tests |-> tests] :
        lang \in SCORE_LANGS,
        lines \in {l \in SCORE_LINES : l >= 5},
        comments \in SCORE_COMMENTS, level \in SCORE_LEVELS,
        readme \in SCORE_READMES, tests \in SCORE_TESTS}
    \cup
    {[fn |-> "score_repo", lang |-> lang,
      metrics |-> ScoreMetrics(lang, 0, 0, 0),
      readme |-> readme, tests |-> tests] :
        lang \in SCORE_LANGS, readme \in SCORE_READMES, tests \in SCORE_TESTS}
    \cup
    {[fn |-> "score_repo", lang |-> "Python",
      metrics |-> [lines |-> 700, functions |-> 6, classes |-> 3,
                   imports |-> 6, try_blocks |-> 3, except_blocks |-> 3,
                   comment_lines |-> c, docstrings |-> 0, api_calls |-> 0,
                   databases |-> 1, frameworks |-> 1, async_code |-> 0],
      readme |-> 15, tests |-> 5] : c \in {34, 35, 40}}

ScoreInit ==
    /\ Idle
    /\ pc = "call"
    /\ call \in {c \in ScoreCalls :
                   GetOr0(c.metrics, "comment_lines") <= c.metrics.lines}
    /\ ret = NoRet

ScoreOf(c) == score_repo(c.lang, c.metrics, c.readme, c.tests)

\* score_repo(dom_lang, combined, readme_score, test_count)
ScoreCall ==
    /\ pc = "call"
    /\ call.fn = "score_repo"
    /\ ret' = [done |-> TRUE, value |-> ScoreOf(call)]
    /\ pc' = "returned"
    /\ UNCHANGED <<idleVars, call>>

\* the same call on a repository that has more lines and is otherwise equal
MoreLines ==
    /\ pc = "returned"
    /\ call.fn = "score_repo"
    /\ \E l \in SCORE_LINES :
          /\ l > call.metrics.lines
          /\ call' = [call EXCEPT !.metrics.lines = l]
    /\ ret' = [done |-> TRUE, value |-> ScoreOf(call')]
    /\ UNCHANGED <<idleVars, pc>>

\* the same call with one input other than the line count raised: a metric,
\* readme_score or test_files
RaiseOne ==
    /\ pc = "returned"
    /\ call.fn = "score_repo"
    /\ \/ \E key \in DOMAIN call.metrics \ {"lines"} :
             \E v \in (IF key = "comment_lines" THEN SCORE_COMMENTS
                        ELSE IF key = "tags" THEN {79, 80}
                        ELSE IF key = "selectors" THEN {49, 50}
                        ELSE {1, 2, 3, 5, 6}) :
                /\ v > call.metrics[key]
                /\ key = "comment_lines" => v <= call.metrics.lines
                /\ call' = [call EXCEPT !.metrics[key] = v]
       \/ \E v \in {9, 10, 14, 15, 20} :
             v > call.readme /\ call' = [call EXCEPT !.readme = v]
       \/ \E v \in {1, 4, 5, 6} :
             v > call.tests /\ call' = [call EXCEPT !.tests = v]
    /\ ret' = [done |-> TRUE, value |-> ScoreOf(call')]
    /\ pc' = "raised"
    /\ UNCHANGED idleVars

NextScore ==
    \/ ScoreCall
    \/ MoreLines
    \/ RaiseOne

SpecScore == ScoreInit /\ [][NextScore]_vars

-----------------------------------------------------------------------------
(* Properties of analyse() *)

Names(recs) == [k \in DOMAIN recs |-> recs[k].name]

Scores(recs) == [k \in DOMAIN recs |-> recs[k].depth_score]

\* C1, as the specification states it: analyse() raises if and only if the
\* repository listing call fails, whatever the deeper remote calls do, and a
\* run that raised returns no result
C1_RaisesIffListingFails ==
    /\ pc = "raised" => (ReposUrl \in down /\ result = NoResult)
    /\ pc = "done" => (ReposUrl \notin down /\ error = "")
    /\ (ReposUrl \in down /\ pc # "start") => pc = "raised"

\* C2: every depth_score recorded by analyse() and the overall_depth_score it
\* returns are integers between 0 and 100
C2_ScoresInRange ==
    /\ \A k \in DOMAIN repo_summaries : repo_summaries[k].depth_score \in 0..100
    /\ \A k \in DOMAIN result.repos : result.repos[k].depth_score \in 0..100
    /\ result.overall_depth_score \in 0..100

\* a run returned a repository whose bonuses add up to more than 100
C2_Witness ==
    /\ pc = "done"
    /\ \E k \in DOMAIN result.repos :
          LET r == result.repos[k]
          IN  /\ r.depth_score = 100
              /\ 20 + SizeBonus(r.metrics.lines)
                    + ReadmeTestBonus(r.readme_quality, r.test_files)
                    + LangBonus(r.dominant_language, r.metrics, r.metrics.lines)
                 > 100
    /\ result.overall_depth_score \in 1..99

\* record k comes before record j when sorted by depth_score, highest first,
\* records of equal score staying in the order they were produced
Before(recs, k, j) ==
    \/ recs[k].depth_score > recs[j].depth_score
    \/ (recs[k].depth_score = recs[j].depth_score /\ k < j)

\* the number of records that come before record j
Rank(recs, j) == Cardinality({k \in DOMAIN recs : Before(recs, k, j)})

\* C3: when a record was produced, overall_depth_score is the truncated mean
\* of the min(3, n) highest depth_scores, records of equal score being taken
\* in listing order, and the returned list holds all n records
C3_OverallIsMeanOfTopThree ==
    (pc = "done" /\ repo_summaries # <<>>) =>
        LET n      == Len(repo_summaries)
            m      == Min(3, n)
            chosen == {j \in 1..n : Rank(repo_summaries, j) < 3}
            total  == SumSeq([j \in 1..n |->
                                IF j \in chosen
                                THEN repo_summaries[j].depth_score ELSE 0])
        IN  /\ Cardinality(chosen) = m
            /\ Len(top) = m
            /\ \A j \in chosen : top[Rank(repo_summaries, j) + 1] = repo_summaries[j]
            /\ result.overall_depth_score * m <= total
            /\ total < (result.overall_depth_score + 1) * m
            /\ result.repos = repo_summaries

\* four records were produced, the third and the fourth highest have the same
\* score, and the mean of the top three is not a whole number
C3_Witness ==
    /\ pc = "done"
    /\ Len(result.repos) = 4
    /\ \E j, k \in 1..4 :
          /\ j < k
          /\ Rank(repo_summaries, j) = 2
          /\ Rank(repo_summaries, k) = 3
          /\ repo_summaries[j].depth_score = repo_summaries[k].depth_score
    /\ SumSeq(Scores(top)) % 3 # 0
    /\ \E j, k \in 1..4 :
          /\ j < k
          /\ Before(repo_summaries, k, j)

\* the walk of repository n meets a directory listing that is down
WalkFails(n) ==
    \E u \in down :
        /\ u.kind = "contents"
        /\ u.repo = n
        /\ u.path \in DOMAIN TREE[n]
        /\ TREE[n][u.path].json = "list"

\* the URLs of repository n among the requests made, in order
RequestsOf(n) == SelectSeq(requests, LAMBDA u : u.repo = n)

\* the record analyse() produces for repository n when the account lists n alone
AloneRecord(n) ==
    LET walk   == list_files(<<n>>, down, n, P_root)
        counts == detect_languages(walk.files)
        lang   == dominant_language(counts)
        code   == CodeFiles(walk.files, lang)
        tests  == Cardinality({k \in DOMAIN walk.files : IsTestFile(walk.files[k])})
        readme == analyse_readme(fetch_readme(<<n>>, down, n).text)
        metrics == IF code = <<>> THEN [lines |-> 0]
                   ELSE Combine(<<n>>, down, n, lang, code).combined
    IN  Summary(REPO_INFO[n], lang, counts, Len(code), metrics, readme, tests)

\* C4: a repository whose tree walk meets a remote error, at the root or in a
\* nested directory, has no record and none of its files is used, its walk
\* stops at the error and is not tried again; every other repository gets the
\* record it would get alone, and the records are in the order of the listing
C4_FailedWalkSkipsOnlyThatRepo ==
    pc = "done" =>
        /\ \A k \in DOMAIN repos :
              LET n == repos[k].name
              IN  WalkFails(n) =>
                    /\ \A j \in DOMAIN result.repos : result.repos[j].name # n
                    /\ \A j \in DOMAIN RequestsOf(n) :
                          /\ RequestsOf(n)[j].kind = "contents"
                          /\ TREE[n][RequestsOf(n)[j].path].json = "list"
                          /\ RequestsOf(n)[j] \in down => j = Len(RequestsOf(n))
                    /\ RequestsOf(n)[Len(RequestsOf(n))] \in down
        /\ \A j, k \in DOMAIN requests : requests[j] = requests[k] => j = k
        /\ \A j \in DOMAIN result.repos :
              result.repos[j] = AloneRecord(result.repos[j].name)
        /\ Names(result.repos) =
              SelectSeq(Names(repos),
                        LAMBDA n : ~WalkFails(n) /\ TREE[n][P_root].items # <<>>)

\* the walk of the second of three repositories failed in a nested directory,
\* after files of it had been listed; the first and the third have a record
C4_Witness ==
    /\ pc = "done"
    /\ Names(repos) = <<"web", "py", "sh">>
    /\ ContentsUrl("py", P_s_test) \in down
    /\ ContentsUrl("py", P_root) \notin down
    /\ RequestsOf("py") = <<ContentsUrl("py", P_root), ContentsUrl("py", P_s),
                            ContentsUrl("py", P_s_test)>>
    /\ Names(result.repos) = <<"web", "sh">>

\* the README of repository n cannot be read: the call fails, or what arrives
\* is not base64 content that decodes
ReadmeUnusable(n) ==
    LET res == Remote(listing, ReadmeUrl(n))
    IN  \/ ReadmeUrl(n) \in down
        \/ res.status # 200
        \/ res.body.json # "dict"
        \/ res.body.encoding # "base64"
        \/ ~b64decode(res.body.content).ok

\* C5, as the specification states it: fetch_readme never raises; a README
\* that is absent, not reachable or not decodable gives the repository the
\* readme_quality 0, and the repository is still recorded
C5_FetchReadmeFailsSoft ==
    /\ error # "binascii.Error"
    /\ (pc = "code_files" /\ ReadmeUnusable(repos[i].name)) => readme_score = 0
    /\ pc = "done" =>
          \A k \in DOMAIN repos :
              LET n == repos[k].name
              IN  (~WalkFails(n) /\ TREE[n][P_root].items # <<>> /\ ReadmeUnusable(n))
                    => \E j \in DOMAIN result.repos :
                          /\ result.repos[j].name = n
                          /\ result.repos[j].readme_quality = 0

\* the file content requests of repository n, in order: its requests that are
\* no directory listing of the walk
FetchesOf(n) ==
    SelectSeq(RequestsOf(n),
              LAMBDA u : /\ u.kind = "contents"
                         /\ u.path \in DOMAIN TREE[n]
                         /\ TREE[n][u.path].json = "dict")

\* the metric vector of code file p of repository n when its fetch succeeds,
\* and the empty vector when it fails
VectorOf(n, lang, p) ==
    LET res == Remote(listing, ContentsUrl(n, p))
    IN  IF ContentsUrl(n, p) \in down \/ res.status # 200 THEN <<>>
        ELSE IF res.body.encoding # "base64" THEN Analyse(lang, <<>>)
        ELSE IF ~b64decode(res.body.content).ok THEN <<>>
        ELSE Analyse(lang, decode_ignore(res.body.content.quads))

\* C6: content is requested for the first 120 code files of a repository, in
\* list order, and for no later one, also when fetches among the 120 fail; the
\* metrics of its record are, key by key, the sum of the vectors of the files
\* fetched with success, and the key lines is always there
C6_FirstFilesFetchedAndSummed ==
    \A j \in DOMAIN repo_summaries :
        LET r     == repo_summaries[j]
            n     == r.name
            lang  == r.dominant_language
            code  == CodeFiles(list_files(listing, down, n, P_root).files, lang)
            first == [k \in 1..Min(120, Len(code)) |-> code[k]]
            vecs  == [k \in DOMAIN first |-> VectorOf(n, lang, first[k])]
            keys  == {"lines"} \cup UNION {DOMAIN vecs[k] : k \in DOMAIN vecs}
        IN  /\ r.code_files = Len(code)
            /\ FetchesOf(n) = [k \in DOMAIN first |-> ContentsUrl(n, first[k])]
            /\ "lines" \in DOMAIN r.metrics
            /\ DOMAIN r.metrics = keys
            /\ \A key \in keys :
                  r.metrics[key] = SumSeq([k \in DOMAIN vecs |-> GetOr0(vecs[k], key)])

\* a repository with more than 120 code files was recorded after fetches among
\* its first 120 files failed, and a repository none of whose fetches worked
\* has the metrics lines = 0
C6_Witness ==
    /\ pc = "done"
    /\ \E j \in DOMAIN result.repos :
          LET r == result.repos[j]
          IN  /\ r.code_files > 120
              /\ Len(FetchesOf(r.name)) = 120
              /\ \E k \in 1..120 : FetchesOf(r.name)[k] \in down
              /\ r.metrics.lines > 0
              /\ r.metrics.functions = 120 - Cardinality(down \cap Range(FetchesOf(r.name)))
    /\ \E j \in DOMAIN result.repos :
          /\ result.repos[j].code_files > 0
          /\ result.repos[j].metrics = [lines |-> 0]

\* every listed repository is left out by get_repos, or its walk fails or
\* finds no file
AllSkipped ==
    \A k \in DOMAIN listing :
        LET n == listing[k]
        IN  \/ REPO_INFO[n].fork
            \/ REPO_INFO[n].size = 0
            \/ WalkFails(n)
            \/ TREE[n][P_root].items = <<>>

\* C7: when the listing is empty or every listed repository is skipped,
\* analyse() returns the empty repository list with the overall score 0 and
\* raises nothing
C7_NothingProducedGivesEmptyResult ==
    (ReposUrl \notin down /\ AllSkipped) =>
        /\ pc # "raised"
        /\ error = ""
        /\ repo_summaries = <<>>
        /\ pc = "done" => result = [repos |-> <<>>, overall_depth_score |-> 0]
        /\ (pc = "list_files" /\ i > Len(repos)) => ENABLED Return

\* a run over three repositories, one without files, one whose walk failed in
\* a nested directory, and one that get_repos leaves out, has returned
C7_Witness ==
    /\ pc = "done"
    /\ Range(listing) = {"empty", "py", "fork"}
    /\ ContentsUrl("py", P_s_test) \in down
    /\ ContentsUrl("py", P_root) \notin down
    /\ ContentsUrl("empty", P_root) \notin down
    /\ Len(repos) = 2
    /\ result = [repos |-> <<>>, overall_depth_score |-> 0]

WalkedFiles(n) == list_files(listing, down, n, P_root).files

\* repository n has a file and none of its files ends in an extension of the
\* table
NoneClassified(n) ==
    /\ ~WalkFails(n)
    /\ WalkedFiles(n) # <<>>
    /\ \A k \in DOMAIN WalkedFiles(n) :
          \A e \in DOMAIN EXT_LANG :
              ~EndsWith(Lower(WalkedFiles(n)[k]), EXT_LANG[e].ext)

\* 20 and the readme and test bonuses
BaseReadmeTests(r) ==
    20 + (IF r.readme_quality >= 10 THEN 5 ELSE 0)
       + (IF r.readme_quality >= 15 THEN 5 ELSE 0)
       + (IF r.test_files >= 1 THEN 5 ELSE 0)
       + (IF r.test_files >= 5 THEN 5 ELSE 0)

\* C15: a repository that has files, none of them with an extension of the
\* table, is recorded with the language "Unknown", the metrics {lines: 0},
\* no code file and the score 20 plus its readme and test bonuses; a record
\* whose language has no bonuses of its own is scored 20 plus the size, readme
\* and test bonuses
C15_UnclassifiedRepoIsRecorded ==
    /\ pc = "done" =>
          \A k \in DOMAIN repos :
              NoneClassified(repos[k].name) =>
                  \E j \in DOMAIN result.repos : result.repos[j].name = repos[k].name
    /\ pc \in {"done", "raised"} =>
       \A j \in DOMAIN repo_summaries :
          LET r == repo_summaries[j]
              l == r.metrics.lines
          IN  /\ NoneClassified(r.name) =>
                    /\ r.dominant_language = "Unknown"
                    /\ r.language_breakdown = <<>>
                    /\ r.metrics = [lines |-> 0]
                    /\ r.code_files = 0
                    /\ r.depth_score = BaseReadmeTests(r)
                    /\ (r.readme_quality = 0 /\ r.test_files = 0) => r.depth_score = 20
              /\ r.dominant_language \notin
                    {"Python", "JavaScript", "TypeScript", "Dart", "HTML", "CSS"} =>
                    r.depth_score =
                        Min(100, BaseReadmeTests(r)
                                   + (IF l > 150 THEN 10 ELSE 0)
                                   + (IF l > 600 THEN 10 ELSE 0)
                                   + (IF l > 1500 THEN 10 ELSE 0))

\* a run returned the record of a repository of two files outside the table,
\* scored 20, and the record of a Shell repository
C15_Witness ==
    /\ pc = "done"
    /\ \E j \in DOMAIN result.repos :
          LET r == result.repos[j]
          IN  /\ NoneClassified(r.name)
              /\ Len(WalkedFiles(r.name)) = 2
              /\ r.dominant_language = "Unknown"
              /\ r.depth_score = 20
    /\ \E j \in DOMAIN result.repos : result.repos[j].dominant_language = "Shell"

\* C17: every depth_score is at least 20 and a multiple of 5; when analyse()
\* returns records, overall_depth_score is at least 20 and lies between the
\* lowest and the highest depth_score returned
C17_ScoresFromTwentyInFives ==
    /\ \A k \in DOMAIN repo_summaries :
          /\ repo_summaries[k].depth_score >= 20
          /\ repo_summaries[k].depth_score % 5 = 0
    /\ (pc = "done" /\ result.repos # <<>>) =>
          /\ result.overall_depth_score >= 20
          /\ \E k \in DOMAIN result.repos :
                result.repos[k].depth_score <= result.overall_depth_score
          /\ \E k \in DOMAIN result.repos :
                result.repos[k].depth_score >= result.overall_depth_score

\* a run returned records of different scores, and an overall score strictly
\* between the lowest and the highest that is no multiple of 5
C17_Witness ==
    /\ pc = "done"
    /\ Len(result.repos) >= 3
    /\ result.overall_depth_score % 5 # 0
    /\ \E k \in DOMAIN result.repos :
          result.repos[k].depth_score < result.overall_depth_score
    /\ \E k \in DOMAIN result.repos :
          result.repos[k].depth_score > result.overall_depth_score

-----------------------------------------------------------------------------
(* Properties of detect_languages and dominant_language *)

\* ext ends path p when the case of the letters of p is ignored
SuffixNoCase(p, ext) ==
    /\ Len(ext) <= Len(p)
    /\ \A k \in 1..Len(ext) : LowerChar(p[Len(p) - Len(ext) + k]) = ext[k]

\* the entries of the extension table that match path p
Matching(p) == {k \in DOMAIN EXT_LANG : SuffixNoCase(p, EXT_LANG[k].ext)}

\* the language of the first entry that matches p
FirstLang(p) ==
    EXT_LANG[CHOOSE k \in Matching(p) : \A m \in Matching(p) : k <= m].lang

\* the positions in fs of the files attributed to lang
FilesOf(fs, lang) ==
    {k \in DOMAIN fs : Matching(fs[k]) # {} /\ FirstLang(fs[k]) = lang}

FirstFileOf(fs, lang) ==
    CHOOSE k \in FilesOf(fs, lang) : \A m \in FilesOf(fs, lang) : k <= m

LangsOf(fs) == {FirstLang(fs[k]) : k \in {m \in DOMAIN fs : Matching(fs[m]) # {}}}

\* C8: dominant_language returns a language of the highest count in the
\* histogram; among several of the highest count it returns the one inserted
\* first, which is the one whose first file comes earliest in the file list;
\* for the empty histogram it returns "Unknown"
C8_DominantIsFirstOfTheHighest ==
    (pc = "returned" /\ call.fn = "detect_languages") =>
        LET fs == call.files
            h  == ret.counts
        IN  IF h = <<>> THEN ret.lang = "Unknown"
            ELSE \E b \in DOMAIN h :
                   /\ ret.lang = h[b].lang
                   /\ \A k \in DOMAIN h : h[k].n <= h[b].n
                   /\ \A k \in DOMAIN h : h[k].n = h[b].n => b <= k
                   /\ \A k \in DOMAIN h :
                         (k # b /\ h[k].n = h[b].n) =>
                             FirstFileOf(fs, h[b].lang) < FirstFileOf(fs, h[k].lang)

\* two languages have the highest count, and the one returned is not the one
\* whose files come last
C8_Witness ==
    /\ pc = "returned"
    /\ call.fn = "detect_languages"
    /\ call.files = <<P_i, P_m, P_R>>
    /\ ret.lang = "TypeScript"

\* C9: detect_languages attributes a path to the language of the first table
\* entry whose extension ends it, letter case ignored, and to no other; the
\* counts add up to the number of files that match an entry, and a file that
\* matches none is in no count but stays in the file list
C9_FirstMatchHistogram ==
    (pc = "returned" /\ call.fn = "detect_languages") =>
        LET fs == call.files
            h  == ret.counts
        IN  /\ \A j, k \in DOMAIN h : h[j].lang = h[k].lang => j = k
            /\ {h[k].lang : k \in DOMAIN h} = LangsOf(fs)
            /\ \A k \in DOMAIN h : h[k].n = Cardinality(FilesOf(fs, h[k].lang))
            /\ SumSeq([k \in DOMAIN h |-> h[k].n])
                 = Cardinality({k \in DOMAIN fs : Matching(fs[k]) # {}})
            /\ \A j, k \in DOMAIN h :
                  j < k => FirstFileOf(fs, h[j].lang) < FirstFileOf(fs, h[k].lang)

\* a list with a file of an upper-case extension, a file of a lower-case one
\* and a file outside the table: two files are counted
C9_Witness ==
    /\ pc = "returned"
    /\ call.fn = "detect_languages"
    /\ call.files = <<P_s_B, P_l, P_m>>
    /\ ret.counts = <<[lang |-> "Python", n |-> 2]>>

\* C18: for the dominant languages Python, JavaScript, TypeScript, Dart, HTML
\* and CSS the code files selected are the files the classifier gave to that
\* language, so their number is the count of that language and at least 1; no
\* code file is selected only under Unknown, JSON, YAML or Markdown; a file in
\* .md, .json, .yml or .yaml is selected under no language
C18_SelectionFollowsClassifier ==
    (pc = "selected" /\ call.fn = "detect_languages") =>
        LET fs   == call.files
            dom  == ret.lang
            code == ret.code_files
        IN  /\ dom \in {"Python", "JavaScript", "TypeScript", "Dart", "HTML", "CSS"} =>
                  /\ code = SelectSeq(fs, LAMBDA p : Matching(p) # {} /\ FirstLang(p) = dom)
                  /\ \E k \in DOMAIN ret.counts :
                        ret.counts[k].lang = dom /\ ret.counts[k].n = Len(code)
                  /\ Len(code) >= 1
            /\ code = <<>> => dom \in {"Unknown", "JSON", "YAML", "Markdown"}
            /\ \A k \in DOMAIN code :
                  /\ \E j \in DOMAIN fs : fs[j] = code[k]
                  /\ \A ext \in {<<".","m","d">>, <<".","j","s","o","n">>,
                                 <<".","y","m","l">>, <<".","y","a","m","l">>} :
                        ~SuffixNoCase(code[k], ext)

\* TypeScript leads with a .ts and a .tsx file, both selected, the .json file
\* of the list left out
C18_Witness ==
    /\ pc = "selected"
    /\ call.fn = "detect_languages"
    /\ call.files = <<P_i, <<"a",".","j","s","o","n">>, <<"v",".","t","s","x">>>>
    /\ ret.lang = "TypeScript"
    /\ ret.code_files = <<P_i, <<"v",".","t","s","x">>>>

-----------------------------------------------------------------------------
(* Properties of get_repos *)

\* the listed repositories that are no fork and have a size above 0
UsefulNames == {n \in Range(listing) : ~REPO_INFO[n].fork /\ REPO_INFO[n].size > 0}

\* C12: get_repos(max_repos) returns at most max_repos repositories, none a
\* fork or of size 0, in descending order of pushed_at: the first max_repos of
\* the listed repositories that are no fork and not of size 0, so ordered
C12_NewestUsefulRepos ==
    (pc = "returned" /\ call.fn = "get_repos" /\ ~ret.raised) =>
        LET got == ret.repos
            kept == {got[k].name : k \in DOMAIN got}
        IN  /\ Len(got) <= call.max_repos
            /\ Len(got) = Min(call.max_repos, Cardinality(UsefulNames))
            /\ \A k \in DOMAIN got : got[k] = REPO_INFO[got[k].name]
            /\ \A j, k \in DOMAIN got : got[j].name = got[k].name => j = k
            /\ kept \subseteq UsefulNames
            /\ \A j, k \in DOMAIN got : j < k => got[j].pushed_at >= got[k].pushed_at
            /\ \A n \in UsefulNames \ kept :
                  \A k \in DOMAIN got : got[k].pushed_at >= REPO_INFO[n].pushed_at

\* the default cut acts: of the eleven listed repositories that are no fork
\* and not of size 0, the eight pushed last are returned
C12_Witness ==
    /\ pc = "returned"
    /\ call.fn = "get_repos"
    /\ call.max_repos = 8
    /\ Cardinality(UsefulNames) = 11
    /\ Cardinality(Range(listing) \ UsefulNames) = 2
    /\ Len(ret.repos) = 8
    /\ ret.repos[1].name = "web"
    /\ ret.repos[8].pushed_at = 3

-----------------------------------------------------------------------------
(* Properties of list_files *)

\* path f lies under directory d
IsUnder(d, f) ==
    \/ d = <<>> /\ f # <<>>
    \/ /\ Len(d) < Len(f)
       /\ SubSeq(f, 1, Len(d)) = d
       /\ f[Len(d) + 1] = "/"

\* the positions, in the listing of directory d of tree t, of the entry that
\* is f or holds f
EntryOf(t, d, f) ==
    {e \in DOMAIN t[d].items :
        t[d].items[e].path = f \/ IsUnder(t[d].items[e].path, f)}

\* C13: on a tree without remote failure list_files returns each file under
\* the start path once, depth first: of two files, the one comes first whose
\* entry comes first in the listing of the directory where their ways part,
\* so the files of a subdirectory stand together at its position; when the
\* start path is a file, the result is the list of that one path
C13_DepthFirstInListingOrder ==
    (pc = "returned" /\ call.fn = "list_files") =>
        LET t    == TREE[call.repo]
            fs   == ret.files
            dirs == {d \in DOMAIN t :
                        t[d].json = "list" /\ (d = call.path \/ IsUnder(call.path, d))}
            all  == UNION {{t[d].items[e].path :
                              e \in {x \in DOMAIN t[d].items :
                                        t[d].items[x].type = "file"}} : d \in dirs}
        IN  /\ ~ret.raised
            /\ IF t[call.path].json = "dict"
               THEN fs = <<call.path>> /\ ret.calls = <<ContentsUrl(call.repo, call.path)>>
               ELSE /\ Range(fs) = all
                    /\ Len(fs) = Cardinality(all)
                    /\ Len(ret.calls) = Cardinality(dirs)
                    /\ \A j, k \in DOMAIN fs :
                          j < k <=>
                             \E d \in dirs :
                                \E a \in EntryOf(t, d, fs[j]) :
                                   \E b \in EntryOf(t, d, fs[k]) : a < b

\* the walk of a tree with a directory in a directory: the files of the inner
\* directory stand between the files of the outer one, which stand before the
\* files of the root that are listed after it
C13_Witness ==
    /\ pc = "returned"
    /\ call.fn = "list_files"
    /\ call.repo = "py"
    /\ call.path = P_root
    /\ ret.files = <<P_s_a, P_s_t, P_s_B, P_m, P_R>>

-----------------------------------------------------------------------------
(* Properties of score_repo *)

\* a step that takes the line count from below a size threshold to above it
CrossesThreshold ==
    /\ pc = "returned"
    /\ pc' = "returned"
    /\ call.fn = "score_repo"
    /\ call' = [call EXCEPT !.metrics.lines = call'.metrics.lines]
    /\ \E t \in {150, 600, 1500} :
          call.metrics.lines < t /\ t < call'.metrics.lines

\* C10: with the language, the other metrics, the readme score and the test
\* count fixed, a line count raised from below one of the thresholds 150, 600
\* and 1500 to above it does not lower the score
C10_CrossingAThresholdNeverLowers ==
    [][CrossesThreshold => ret'.value >= ret.value]_vars

\* a Python repository has crossed the threshold 150 and lost its comment
\* bonus on the way: its score is what it was
C10_Witness ==
    /\ pc = "returned"
    /\ call.fn = "score_repo"
    /\ call.lang = "Python"
    /\ call.metrics.lines = 200
    /\ call.metrics.comment_lines = 8
    /\ call.metrics.functions = 0
    /\ call.readme = 0
    /\ call.tests = 0
    /\ ret.value = 30
    /\ ScoreOf([call EXCEPT !.metrics.lines = 149]) = 30

\* 1 when cond holds, else 0
One(cond) == IF cond THEN 1 ELSE 0

\* C14: for a Python repository score_repo returns min(100, 20 + 10 for each
\* of the thresholds 150, 600, 1500 the lines exceed + 5 for each readme level
\* (10, 15) and each test level (1, 5) reached + 10 each for 5 functions,
\* 2 classes, 5 imports, 1 framework, 1 database, 2 try blocks and comment lines
\* at the floor max(8, lines / 20) + 5 each for 3 api calls and 2 async tokens);
\* 700 lines, 6 functions, 3 classes, 6 imports, 1 framework, 1 database,
\* 3 try blocks, comments at the floor, readme 15 and 5 tests give 100
C14_PythonScore ==
    (ret.done /\ call.fn = "score_repo" /\ call.lang = "Python") =>
        LET m    == call.metrics
            tens == One(m.lines > 150) + One(m.lines > 600) + One(m.lines > 1500)
                  + One(m.functions >= 5) + One(m.classes >= 2)
                  + One(m.imports >= 5) + One(m.frameworks >= 1)
                  + One(m.databases >= 1) + One(m.try_blocks >= 2)
                  + One(m.comment_lines >= 8 /\ m.comment_lines >= m.lines \div 20)
            fives == One(call.readme >= 10) + One(call.readme >= 15)
                   + One(call.tests >= 1) + One(call.tests >= 5)
                   + One(m.api_calls >= 3) + One(m.async_code >= 2)
            sum  == 20 + 10 * tens + 5 * fives
        IN  /\ ret.value = IF sum > 100 THEN 100 ELSE sum
            /\ (/\ m.lines = 700 /\ m.functions = 6 /\ m.classes = 3
                /\ m.imports = 6 /\ m.frameworks = 1 /\ m.databases = 1
                /\ m.try_blocks = 3 /\ m.comment_lines >= 35
                /\ call.readme = 15 /\ call.tests = 5) => ret.value = 100

\* the scenario of 700 lines was scored 100, its bonuses adding up to 130
C14_Witness ==
    /\ pc = "returned"
    /\ call.fn = "score_repo"
    /\ call.lang = "Python"
    /\ call.metrics.lines = 700
    /\ call.metrics.functions = 6
    /\ call.metrics.classes = 3
    /\ call.metrics.imports = 6
    /\ call.metrics.frameworks = 1
    /\ call.metrics.databases = 1
    /\ call.metrics.try_blocks = 3
    /\ call.metrics.comment_lines = 35
    /\ call.metrics.api_calls = 0
    /\ call.readme = 15
    /\ call.tests = 5
    /\ ret.value = 100
    /\ 20 + SizeBonus(700) + ReadmeTestBonus(15, 5) + PythonBonus(call.metrics, 700) = 130

\* a step that raises one numeric input of the call and leaves the others
RaisesOneInput ==
    /\ pc = "returned"
    /\ pc' \in {"returned", "raised"}
    /\ call.fn = "score_repo"
    /\ call' # call
    /\ call'.lang = call.lang

\* the step raises the line count
RaisesLines == call'.metrics.lines > call.metrics.lines

\* the comment lines of the call meet the floor of its lines before the step
\* and miss the floor of the lines after it
LosesCommentBonus ==
    LET c == GetOr0(call.metrics, "comment_lines")
        least == IF call.lang = "Python" THEN 8 ELSE 6
        part  == IF call.lang = "Python" THEN 20 ELSE 25
    IN  /\ call.lang \in {"Python", "JavaScript", "TypeScript"}
        /\ c >= least
        /\ c >= call.metrics.lines \div part
        /\ c < call'.metrics.lines \div part

\* C16, as stated: raising one numeric input of score_repo, the line count
\* included, the other inputs fixed, never lowers the score
C16_MonotoneInEveryInput ==
    [][RaisesOneInput => ret'.value >= ret.value]_vars

\* C16, amended: raising one input other than the line count never lowers the
\* score; raising the line count lowers it only for Python, JavaScript and
\* TypeScript, only when the comment lines met the floor before and miss it
\* after, and then by no more than the comment bonus (10 for Python, 5 for
\* JavaScript and TypeScript)
C16_MonotoneButForCommentFloor ==
    [][RaisesOneInput =>
          \/ ret'.value >= ret.value
          \/ /\ RaisesLines
             /\ LosesCommentBonus
             /\ ret'.value >= ret.value - (IF call.lang = "Python" THEN 10 ELSE 5)]_vars

\* a JavaScript call of 200 lines and 6 comment lines is scored 30, 5 below
\* the same call of 151 lines
C16_Witness ==
    /\ pc = "returned"
    /\ call.fn = "score_repo"
    /\ call.lang = "JavaScript"
    /\ call.metrics.lines = 200
    /\ call.metrics.comment_lines = 6
    /\ call.metrics.imports = 0
    /\ call.readme = 0
    /\ call.tests = 0
    /\ ret.value = 30
    /\ ScoreOf([call EXCEPT !.metrics.lines = 151]) = 35

=============================================================================
